---- MODULE Spec2Model ----
(***************************************************************************)
(* Pyjoyment: the select() reactor (Pyjo/Reactor/Select.py) and the HTTP   *)
(* user agent's connection engine (Pyjo/UserAgent/__init__.py).            *)
(*                                                                         *)
(* The specifications of this module:                                      *)
(*   SpecReactor  one Pyjo_Reactor_Select object, its API and its loop     *)
(*   SpecUA       one Pyjo_UserAgent object and the events of its streams  *)
(*   FairSpecUA   SpecUA under loops that keep dispatching what is pending *)
(*   SpecFn       the functions of Pyjo/Util.py and Pyjo/Parameters.py,    *)
(*                applied to inputs drawn from bounded sets                *)
(*   SpecLoaded   the reactor from a state with every descriptor and a     *)
(*                timer registered, run and emptied                        *)
(* The reactor's steps leave the user agent's variables untouched, and the *)
(* user agent's steps the reactor's.                                       *)
(***************************************************************************)
EXTENDS Integers, Sequences, FiniteSets, TLC

VARIABLES
    \* ---- Pyjo_Reactor_Select ----
    _running,      \* self._running
    _timers,       \* self._timers: dict in insertion order, as a sequence of
                   \*   [id, time, after, recurring, cb]
    _ios,          \* self._ios: fd -> [cb]
    _inputs,       \* self._inputs: list of fds
    _outputs,      \* self._outputs: list of fds
    now,           \* steady_time()
    pc,            \* where control is in one_tick(): "idle" (not in it), "loop"
                   \*   (at `while not i`, nothing dispatched yet), "restore" (its
                   \*   loop is done), "raise" (an exception is leaving it)
    saved,         \* one_tick's local `running`
    started,       \* control is inside start()'s while loop
    log,           \* history: the callbacks this one_tick() has invoked so far
    lastWait,      \* one_tick's locals readable, writable, exceptional
    fault,         \* the exception that is leaving one_tick(), or "none"
    calls,         \* number of registrations made so far
    act,           \* history: the kind of step taken last ("again" for a call
                   \*   of again(), "call" for another call of the API)
    \* ---- Pyjo_UserAgent ----
    _connections,  \* self._connections: cid -> [cb, nb, tx, writing]
    txs,           \* the transactions: tx -> [state, error, connection, chunks,
                   \*   resume]
    streams,       \* the loops' streams: cid -> [state, loop, handlers,
                   \*   timeout, written, pending]
    rtimers,       \* cids whose request timer is armed on the connection's loop
    ioloop,        \* self.ioloop has been started and not stopped since
    blocked,       \* the cid a blocking start() is waiting for, or 0
    alive,         \* the user agent object exists
    hist,          \* history: per cid, the completion callbacks invoked and
                   \*   the records deleted from the table so far
    last,          \* history: the event handled last, [name, cid, raised,
                   \*   finish, error, timeout, loops, fed, busy]: what it raised, the
                   \*   _finish and _error calls it made, the request timeout
                   \*   a start was made with, and the loops whose methods
                   \*   the handler called, and what the transaction was
                   \*   after each client_read() the handler made, and how
                   \*   often _write found the writing flag set
    \* ---- functions ----
    fn_in,         \* the call made: the function and its arguments
    fn_mid,        \* what the first call returned: url_escape's result, or
                   \*   the Pyjo_Parameters object
    fn_out,        \* what the second call returned: url_unescape's result, or
                   \*   to_string's
    fn_pc          \* how far the calls have got

rvars == <<_running, _timers, _ios, _inputs, _outputs, now, pc, saved,
           started, log, lastWait, fault, calls, act>>

uvars == <<_connections, txs, streams, rtimers, ioloop, blocked, alive, hist,
           last>>

fvars == <<fn_in, fn_mid, fn_out, fn_pc>>

vars == <<rvars, uvars, fvars>>

(***************************************************************************)
(* Bounds of the model                                                     *)
(***************************************************************************)
MaxFd     == 2      \* descriptors are 1..MaxFd
MaxTimers == 2      \* at most this many live timers
MaxTime   == 2      \* the clock stops being advanced here
MaxAfter  == 1      \* delays passed to timer()/recurring() are 0..MaxAfter
MaxCalls  == 2      \* at most this many registrations (io, watch, timer, recurring)
                    \*   are made, those of the callbacks included

\* select()'s bound when no timer exists; the clock's unit is that bound
DefaultTimeout == 1

FDs    == 1..MaxFd
TIDs   == 1..MaxTimers
Times  == 0..MaxTime
Afters == 0..MaxAfter

(***************************************************************************)
(* Callbacks are user code.  A callback is known to the reactor by its     *)
(* identity only; what it does when it is invoked is the caller's          *)
(* business: return, call stop(), raise, call remove(handle), call         *)
(* remove(tid), or call reset().                                           *)
(***************************************************************************)
Callbacks == {"f", "g"}

TimerCallbacks == {"t"}

Behaviours ==
    {[k |-> "nop", a |-> 0], [k |-> "stop", a |-> 0], [k |-> "raise", a |-> 0]}
    \cup {[k |-> "remove", a |-> fd] : fd \in FDs}
    \cup {[k |-> "remove_timer", a |-> tid] : tid \in TIDs}
    \cup {[k |-> "reset", a |-> 0]}

\* what a timer's callback can do besides: remove(tid) of its own timer, or
\* timer(cb, 0), the new timer getting the id a
TimerBehaviours ==
    Behaviours \cup {[k |-> "remove_self", a |-> 0]}
    \cup {[k |-> "timer", a |-> tid] : tid \in TIDs}

(***************************************************************************)
(* Helpers on lists and dicts                                              *)
(***************************************************************************)
Range(s) == {s[j] : j \in 1..Len(s)}

ListRemove(s, x) == SelectSeq(s, LAMBDA y : y # x)

RECURSIVE MinOf(_)
MinOf(S) ==
    LET x == CHOOSE y \in S : TRUE
    IN  IF S = {x} THEN x
        ELSE LET m == MinOf(S \ {x}) IN IF x < m THEN x ELSE m

\* all orders in which a finite set can be listed
RECURSIVE Orders(_)
Orders(S) ==
    IF S = {} THEN {<<>>}
    ELSE UNION {{<<x>> \o o : o \in Orders(S \ {x})} : x \in S}

TimerIds(ts) == {ts[j].id : j \in 1..Len(ts)}

TimerOf(ts, tid) == ts[CHOOSE j \in 1..Len(ts) : ts[j].id = tid]

\* the timers of ts with an id in ids, as [id, time]
Deadlines(ts, ids) ==
    {[id |-> ts[j].id, time |-> ts[j].time] : j \in {k \in 1..Len(ts) : ts[k].id \in ids}}

\* the reactor's fields as one record, threaded through the callbacks of a pass
Self == [running |-> _running, timers |-> _timers, ios |-> _ios,
         inputs |-> _inputs, outputs |-> _outputs,
         i |-> 0, log |-> log, raised |-> "none", calls |-> calls,
         bad |-> FALSE]

(***************************************************************************)
(* stop / remove / watch / io / _timer / again / reset on such a record    *)
(***************************************************************************)
stop(r) == [r EXCEPT !.running = FALSE]

\* a remove() that reports a timer found and leaves it in the table
remove_timerKept(r, tid) == r

remove_timer(r, tid) ==
    [r EXCEPT !.timers = SelectSeq(@, LAMBDA t : t.id # tid)]

remove_io(r, fd) ==
    [r EXCEPT !.inputs  = ListRemove(@, fd),
              !.outputs = ListRemove(@, fd),
              !.ios     = [f \in (DOMAIN @) \ {fd} |-> @[f]]]

\* what remove() returns for a timer id, and for a handle
remove_timer_result(r, tid) == tid \in TimerIds(r.timers)

remove_io_result(r, fd) == fd \in DOMAIN r.ios

\* a watch that appends without looking
watchAppend(r, fd, read, write) ==
    [r EXCEPT !.inputs  = IF read THEN Append(@, fd) ELSE @,
              !.outputs = IF write THEN Append(@, fd) ELSE @]

watch(r, fd, read, write) ==
    [r EXCEPT !.inputs  = IF read /\ fd \notin Range(@) THEN Append(@, fd) ELSE @,
              !.outputs = IF write /\ fd \notin Range(@) THEN Append(@, fd) ELSE @]

io(r, cb, fd) ==
    watch([r EXCEPT !.ios = [f \in (DOMAIN @) \cup {fd} |->
                                IF f = fd THEN [cb |-> cb] ELSE @[f]]],
          fd, TRUE, TRUE)

\* self._timers[tid] = timer: a new key goes to the end of the dict, an
\* existing key keeps its place and gets the new value
_timer(r, tid, cb, recurring, after, clock) ==
    LET timer == [id |-> tid, time |-> clock + after, after |-> after,
                  recurring |-> recurring, cb |-> cb]
    IN  IF tid \in TimerIds(r.timers)
        THEN [r EXCEPT !.timers = [j \in DOMAIN @ |->
                                      IF @[j].id = tid THEN timer ELSE @[j]]]
        ELSE [r EXCEPT !.timers = Append(@, timer)]

\* ids drawn without looking at the table
AnyIds(ts) == TIDs

\* the ids the retry loop of _timer can end with: those not in the table
FreshIds(ts) == TIDs \ TimerIds(ts)

\* an again() that counts from the timer's deadline
againFromDeadline(r, tid, clock) ==
    [r EXCEPT !.timers = [j \in DOMAIN @ |->
        IF @[j].id = tid THEN [@[j] EXCEPT !.time = @ + r.timers[j].after]
        ELSE @[j]]]

again(r, tid, clock) ==
    [r EXCEPT !.timers = [j \in DOMAIN @ |->
        IF @[j].id = tid THEN [@[j] EXCEPT !.time = clock + r.timers[j].after]
        ELSE @[j]]]

reset(r) ==
    [r EXCEPT !.ios = <<>>, !.inputs = <<>>, !.outputs = <<>>, !.timers = <<>>]

(***************************************************************************)
(* _sandbox: the callback is called, and nothing it raises is caught       *)
(***************************************************************************)
\* a reactor that catches what a callback raises
RunCallbackCaught(r, b) ==
    CASE b.k = "nop"    -> r
      [] b.k = "stop"   -> stop(r)
      [] b.k = "raise"  -> r
      [] b.k = "remove" ->
            [remove_io(r, b.a) EXCEPT
                !.log[Len(r.log)].fds = {b.a} \cap DOMAIN r.ios]
      [] b.k = "remove_timer" ->
            [remove_timer(r, b.a) EXCEPT
                !.log[Len(r.log)].tids = Deadlines(r.timers, {b.a})]
      [] b.k = "reset" ->
            [reset(r) EXCEPT !.log = [r.log EXCEPT ![Len(r.log)] =
                [@ EXCEPT !.fds = DOMAIN r.ios,
                           !.tids = Deadlines(r.timers, TimerIds(r.timers))]]]
      [] OTHER          -> r

RunCallback(r, b) ==
    CASE b.k = "nop"    -> r
      [] b.k = "stop"   -> stop(r)
      [] b.k = "raise"  -> [r EXCEPT !.raised = "callback"]
      [] b.k = "remove" ->
            [remove_io(r, b.a) EXCEPT
                !.log[Len(r.log)].fds = {b.a} \cap DOMAIN r.ios]
      [] b.k = "remove_timer" ->
            [remove_timer(r, b.a) EXCEPT
                !.log[Len(r.log)].tids = Deadlines(r.timers, {b.a})]
      [] b.k = "reset" ->
            [reset(r) EXCEPT !.log = [r.log EXCEPT ![Len(r.log)] =
                [@ EXCEPT !.fds = DOMAIN r.ios,
                           !.tids = Deadlines(r.timers, TimerIds(r.timers))]]]
      [] OTHER          -> r         \* a timer's callback: see TimerCallback

\* ev, id, cb: what is being dispatched; bs: what the invoked callbacks do, in
\* the order of their invocation
\* at: the deadline a timer had when it was found due (0 for a descriptor)
\* rec: the timer was a recurring one (FALSE for a descriptor)
\* the log also tells whether the invoked callback raised, whether it called
\* stop(), what a remove()
\* of the callback's own timer returned (found) and the id of the timer the
\* callback made (made, 0 if it made none), and the descriptors (fds) and
\* timers (tids, each with the deadline it had) that the callback's
\* remove() or reset() took out of the tables
_sandbox(r, ev, id, cb, at, rec, bs) ==
    RunCallback([r EXCEPT !.i = @ + 1,
                          !.log = Append(@, [ev |-> ev, id |-> id, cb |-> cb,
                                             at |-> at, rec |-> rec,
                                             raised |-> bs[r.i + 1].k = "raise",
                                             stopped |-> bs[r.i + 1].k = "stop",
                                             found |-> "none", made |-> 0,
                                             fds |-> {}, tids |-> {}])],
                bs[r.i + 1])

(***************************************************************************)
(* one_tick, the I/O phase: the for loop over the descriptors select()     *)
(* reported, in the order `fds`                                            *)
(***************************************************************************)
IoStep(r, fd, mode, bs) ==
    IF fd \notin DOMAIN r.ios
    THEN [r EXCEPT !.raised = "KeyError"]                 \* io = self._ios[fd]
    ELSE _sandbox(r, mode, fd, r.ios[fd].cb, 0, FALSE, bs)

\* a loop that dispatches the first reported descriptor only
IoPhaseFirstOnly(r, fds, w, bs) ==
    IF fds = <<>> THEN r
    ELSE LET fd == Head(fds)
         IN  IF fd \in w.rd \/ fd \in w.ex THEN IoStep(r, fd, "Read", bs)
             ELSE IF fd \in w.wr THEN IoStep(r, fd, "Write", bs)
             ELSE r

\* a loop that prefers the write path
RECURSIVE IoPhaseWriteFirst(_, _, _, _)
IoPhaseWriteFirst(r, fds, w, bs) ==
    IF fds = <<>> \/ r.raised # "none" THEN r
    ELSE LET fd == Head(fds)
             r2 == IF fd \in w.wr THEN IoStep(r, fd, "Write", bs)
                   ELSE IF fd \in w.rd \/ fd \in w.ex
                        THEN IoStep(r, fd, "Read", bs)
                   ELSE r
         IN  IoPhaseWriteFirst(r2, Tail(fds), w, bs)

RECURSIVE IoPhase(_, _, _, _)
IoPhase(r, fds, w, bs) ==
    IF fds = <<>> \/ r.raised # "none" THEN r
    ELSE LET fd == Head(fds)
             r2 == IF fd \in w.rd \/ fd \in w.ex THEN IoStep(r, fd, "Read", bs)
                   ELSE IF fd \in w.wr THEN IoStep(r, fd, "Write", bs)
                   ELSE r
         IN  IoPhase(r2, Tail(fds), w, bs)

(***************************************************************************)
(* one_tick, the timer phase: for tid in list(self._timers), at time clock *)
(***************************************************************************)
\* what the callback of the timer tid, just invoked, does to the timers:
\* self.remove(tid), or self.timer(cb, 0) with an id that is not in the
\* table (another id cannot come out of _timer) and is not the id of a
\* timer a callback has removed during this call (ids are md5 sums of the
\* time and a random number)
TimerCallback(r, tid, clock, b) ==
    CASE b.k = "remove_self" ->
            [remove_timer(r, tid) EXCEPT
                !.log[Len(r.log)].found =
                    IF remove_timer_result(r, tid) THEN "true" ELSE "false"]
      [] b.k = "timer" ->
            IF /\ b.a \in FreshIds(r.timers) /\ r.calls < MaxCalls
               /\ \A p \in DOMAIN r.log :
                     \A x \in r.log[p].tids : x.id # b.a
            THEN [_timer(r, b.a, "t", FALSE, 0, clock) EXCEPT
                     !.log[Len(r.log)].made = b.a, !.calls = @ + 1]
            ELSE [r EXCEPT !.bad = TRUE]
      [] OTHER -> r

\* a timer pass that removes a one-shot timer after its callback has run
TimerStepLate(r, tid, clock, bs) ==
    IF tid \notin TimerIds(r.timers) THEN r
    ELSE LET t == TimerOf(r.timers, tid) IN
         IF t.time > clock THEN r
         ELSE LET r1 == IF t.recurring
                        THEN [r EXCEPT !.timers = [j \in DOMAIN @ |->
                                 IF @[j].id = tid
                                 THEN [@[j] EXCEPT !.time = clock + t.after]
                                 ELSE @[j]]]
                        ELSE r
                  r2 == TimerCallback(_sandbox(r1, "Timer", tid, t.cb, t.time,
                                               t.recurring, bs),
                                      tid, clock, bs[r1.i + 1])
              IN  IF t.recurring THEN r2 ELSE remove_timer(r2, tid)

\* a timer pass that moves a recurring timer on from its previous deadline
TimerStepDrift(r, tid, clock, bs) ==
    IF tid \notin TimerIds(r.timers) THEN r
    ELSE LET t == TimerOf(r.timers, tid) IN
         IF t.time > clock THEN r
         ELSE LET r1 == IF t.recurring
                        THEN [r EXCEPT !.timers = [j \in DOMAIN @ |->
                                 IF @[j].id = tid
                                 THEN [@[j] EXCEPT !.time = t.time + t.after]
                                 ELSE @[j]]]
                        ELSE remove_timer(r, tid)
              IN  TimerCallback(_sandbox(r1, "Timer", tid, t.cb, t.time,
                                         t.recurring, bs),
                                tid, clock, bs[r1.i + 1])

\* a timer pass that also fires a zero-delay timer as soon as a callback
\* has made it
TimerStepNew(r, tid, clock, bs) ==
    IF tid \notin TimerIds(r.timers) THEN r
    ELSE LET t == TimerOf(r.timers, tid) IN
         IF t.time > clock THEN r
         ELSE LET r1 == IF t.recurring
                        THEN [r EXCEPT !.timers = [j \in DOMAIN @ |->
                                 IF @[j].id = tid
                                 THEN [@[j] EXCEPT !.time = clock + t.after]
                                 ELSE @[j]]]
                        ELSE remove_timer(r, tid)
                  r2 == TimerCallback(_sandbox(r1, "Timer", tid, t.cb, t.time,
                                               t.recurring, bs),
                                      tid, clock, bs[r1.i + 1])
                  made == r2.log[Len(r2.log)].made
              IN  IF made = 0 THEN r2
                  ELSE [remove_timer(r2, made) EXCEPT
                          !.log = Append(@, [ev |-> "Timer", id |-> made,
                                             cb |-> "t", at |-> clock,
                                             rec |-> FALSE, raised |-> FALSE,
                                             stopped |-> FALSE,
                                             found |-> "none", made |-> 0,
                                             fds |-> {}, tids |-> {}])]

TimerStep(r, tid, clock, bs) ==
    IF tid \notin TimerIds(r.timers) THEN r               \* not t: continue
    ELSE LET t == TimerOf(r.timers, tid) IN
         IF t.time > clock THEN r
         ELSE LET r1 == IF t.recurring
                        THEN [r EXCEPT !.timers = [j \in DOMAIN @ |->
                                 IF @[j].id = tid
                                 THEN [@[j] EXCEPT !.time = clock + t.after]
                                 ELSE @[j]]]
                        ELSE remove_timer(r, tid)
              IN  TimerCallback(_sandbox(r1, "Timer", tid, t.cb, t.time,
                                         t.recurring, bs),
                                tid, clock, bs[r1.i + 1])

RECURSIVE TimerPhase(_, _, _, _)
TimerPhase(r, tids, clock, bs) ==
    IF tids = <<>> \/ r.raised # "none" THEN r
    ELSE TimerPhase(TimerStep(r, Head(tids), clock, bs), Tail(tids), clock, bs)

TimerOrder(ts) == [j \in 1..Len(ts) |-> ts[j].id]


(***************************************************************************)
(* one_tick.  OneTick is one pass of `while not i`: the pass that enters   *)
(* the call remembers _running and sets it.  w is what select() reports,   *)
(* fds the order in which the set of reported descriptors is iterated,     *)
(* clock the time after the wait, bs what the invoked callbacks do.        *)
(* OneTickReturn is "Restore state if necessary" and the return;           *)
(* OneTickRaise is an exception leaving one_tick (and start).              *)
(***************************************************************************)
NoWait == [rd |-> {}, wr |-> {}, ex |-> {}]

Ready(w) == w.rd \cup w.wr \cup w.ex

Timeout(ts, clock) ==
    IF ts = <<>> THEN DefaultTimeout
    ELSE LET m == MinOf({ts[j].time : j \in 1..Len(ts)})
         IN  IF m - clock < 0 THEN 0 ELSE m - clock

\* a pass that fires the timers before it looks at the descriptors
PassTimersFirst(r, w, fds, clock, bs) ==
    LET r1 == TimerPhase(r, TimerOrder(r.timers), clock, bs)
    IN  IF DOMAIN r1.ios # {} THEN IoPhase(r1, fds, w, bs) ELSE r1

Pass(r, w, fds, clock, bs) ==
    LET r1 == IF DOMAIN r.ios # {} THEN IoPhase(r, fds, w, bs) ELSE r
    IN  TimerPhase(r1, TimerOrder(r1.timers), clock, bs)

\* how many callbacks a pass can invoke at most
Due(ts, clock) == {j \in 1..Len(ts) : ts[j].time <= clock}

MaxInvoked(r, w, clock) == Cardinality(Ready(w)) + Cardinality(Due(r.timers, clock))

\* a loop that makes one pass whatever it dispatched
LoopExitOnce(r) == IF r.raised # "none" THEN "raise" ELSE "restore"

\* while not i: where control is after a pass whose outcome is r
LoopExit(r) ==
    IF r.raised # "none" THEN "raise"
    ELSE IF r.i = 0 THEN "loop" ELSE "restore"

\* the state after a pass whose outcome is r
AfterPass(r, sv, w, clock) ==
    /\ _running' = r.running
    /\ _timers' = r.timers
    /\ _ios' = r.ios
    /\ _inputs' = r.inputs
    /\ _outputs' = r.outputs
    /\ log' = r.log
    /\ lastWait' = w
    /\ now' = clock
    /\ saved' = sv
    /\ fault' = r.raised
    /\ pc' = LoopExit(r)
    /\ calls' = r.calls
    /\ act' = "tick" /\ UNCHANGED <<uvars, fvars>>
    /\ UNCHANGED started

\* bs is what the callbacks of the pass with the outcome r did: each one
\* something its kind of callback can do, and nothing is said of callbacks
\* that were not invoked
Played(r, bs) ==
    /\ ~r.bad
    /\ \A p \in DOMAIN bs :
          IF p > Len(r.log) THEN bs[p].k = "nop"
          ELSE r.log[p].ev # "Timer" => bs[p] \in Behaviours

\* a reactor that never finds itself idle
NothingToWatchNever(r) == FALSE

\* not self._timers and not self._ios
NothingToWatch(r) == r.timers = <<>> /\ DOMAIN r.ios = {}

one_tick ==
    LET sv == IF pc = "loop" THEN saved ELSE _running
        r0 == [Self EXCEPT !.running = TRUE]
    IN  IF NothingToWatch(r0)
        THEN \* return self.stop()
             /\ _running' = FALSE
             /\ pc' = "idle"
             /\ started' = FALSE
             /\ saved' = FALSE
             /\ log' = <<>>
             /\ lastWait' = NoWait
             /\ fault' = "none"
             /\ act' = "tick" /\ UNCHANGED <<uvars, fvars>>
             /\ UNCHANGED <<_timers, _ios, _inputs, _outputs, now, calls>>
        ELSE LET timeout == Timeout(r0.timers, now) IN
             IF DOMAIN r0.ios # {}
             THEN \E rd \in SUBSET Range(_inputs), wr \in SUBSET Range(_outputs),
                     ex \in SUBSET Range(_inputs), d \in 0..timeout :
                    LET w == [rd |-> rd, wr |-> wr, ex |-> ex] IN
                    /\ rd \cap ex = {}
                    /\ Ready(w) = {} => d = timeout
                    /\ now + d <= MaxTime
                    /\ \E fds \in Orders(Ready(w)),
                          bs \in [1..MaxInvoked(r0, w, now + d)
                                    -> TimerBehaviours] :
                          LET r == Pass(r0, w, fds, now + d, bs) IN
                          Played(r, bs) /\ AfterPass(r, sv, w, now + d)
             ELSE \* time.sleep(timeout)
                  /\ now + timeout <= MaxTime
                  /\ \E bs \in [1..MaxInvoked(r0, NoWait, now + timeout)
                                  -> TimerBehaviours] :
                        LET r == Pass(r0, NoWait, <<>>, now + timeout, bs) IN
                        Played(r, bs) /\ AfterPass(r, sv, NoWait, now + timeout)

OneTick ==
    /\ pc \in {"idle", "loop"}
    /\ one_tick

\* a return that puts the flag back whatever it is
OneTickReturnAlways ==
    /\ pc = "restore"
    /\ _running' = saved
    /\ started' = (started /\ _running')
    /\ pc' = "idle"
    /\ saved' = FALSE
    /\ log' = <<>>
    /\ lastWait' = NoWait
    /\ act' = "return" /\ UNCHANGED <<uvars, fvars>>
    /\ UNCHANGED <<_timers, _ios, _inputs, _outputs, now, fault, calls>>

OneTickReturn ==
    /\ pc = "restore"
    /\ _running' = (IF _running THEN saved ELSE FALSE)
    /\ started' = (started /\ _running')      \* start: while self._running
    /\ pc' = "idle"
    /\ saved' = FALSE
    /\ log' = <<>>
    /\ lastWait' = NoWait
    /\ act' = "return" /\ UNCHANGED <<uvars, fvars>>
    /\ UNCHANGED <<_timers, _ios, _inputs, _outputs, now, fault, calls>>

OneTickRaise ==
    /\ pc = "raise"
    /\ started' = FALSE
    /\ pc' = "idle"
    /\ saved' = FALSE
    /\ fault' = "none"
    /\ log' = <<>>
    /\ lastWait' = NoWait
    /\ act' = "raise" /\ UNCHANGED <<uvars, fvars>>
    /\ UNCHANGED <<_running, _timers, _ios, _inputs, _outputs, now, calls>>

(***************************************************************************)
(* The reactor's API, called from outside the loop.  Registrations are     *)
(* counted: the model makes at most MaxCalls of them.                      *)
(***************************************************************************)
Outside == pc = "idle" /\ ~started

CanCall == Outside /\ calls < MaxCalls

\* a call of the API that leaves the reactor as r, having made n
\* registrations; a: what the history calls it
ApplyAs(r, n, a) ==
    /\ _running' = r.running
    /\ _timers' = r.timers
    /\ _ios' = r.ios
    /\ _inputs' = r.inputs
    /\ _outputs' = r.outputs
    /\ calls' = calls + n
    /\ act' = a /\ UNCHANGED <<uvars, fvars>>
    /\ UNCHANGED <<now, pc, saved, started, log, lastWait, fault>>

Apply(r, n) == ApplyAs(r, n, "call")

Io == /\ CanCall
      /\ \E cb \in Callbacks, fd \in FDs : Apply(io(Self, cb, fd), 1)

Watch == /\ CanCall
         /\ \E fd \in FDs, read \in BOOLEAN, write \in BOOLEAN :
               Apply(watch(Self, fd, read, write), 1)

NewTimer(recurring) ==
    /\ CanCall
    /\ Len(_timers) < MaxTimers
    /\ \E cb \in TimerCallbacks, after \in Afters, tid \in FreshIds(_timers) :
          Apply(_timer(Self, tid, cb, recurring, after, now), 1)

Timer == NewTimer(FALSE)

Recurring == NewTimer(TRUE)

Again == /\ Outside
         /\ \E tid \in TimerIds(_timers) :
               ApplyAs(again(Self, tid, now), 0, "again")

RemoveTimer == /\ Outside
               /\ \E tid \in TIDs : Apply(remove_timer(Self, tid), 0)

RemoveIo == /\ Outside
            /\ \E fd \in FDs : Apply(remove_io(Self, fd), 0)

Reset == /\ Outside
         /\ Apply(reset(Self), 0)

Stop == /\ Outside
        /\ Apply(stop(Self), 0)

Start == /\ Outside
         /\ _running' = TRUE
         /\ started' = TRUE
         /\ act' = "call" /\ UNCHANGED <<uvars, fvars>>
         /\ UNCHANGED <<_timers, _ios, _inputs, _outputs, now, pc, saved, log,
                         lastWait, fault, calls>>

\* time passes while the caller does something else
Elapse == /\ Outside
          /\ now < MaxTime
          /\ now' = now + 1
          /\ act' = "call" /\ UNCHANGED <<uvars, fvars>>
          /\ UNCHANGED <<_running, _timers, _ios, _inputs, _outputs, pc,
                         saved, started, log, lastWait, fault, calls>>

InitReactor ==
    /\ _running = FALSE
    /\ _timers = <<>>
    /\ _ios = <<>>
    /\ _inputs = <<>>
    /\ _outputs = <<>>
    /\ now = 0
    /\ pc = "idle"
    /\ saved = FALSE
    /\ started = FALSE
    /\ log = <<>>
    /\ lastWait = NoWait
    /\ fault = "none"
    /\ calls = 0
    /\ act = "init"

NextReactor ==
    \/ Io \/ Watch \/ Timer \/ Recurring \/ Again \/ RemoveTimer \/ RemoveIo
    \/ Reset \/ Stop \/ Start \/ OneTick \/ OneTickReturn \/ OneTickRaise
    \/ Elapse

(***************************************************************************)
(* Pyjo_UserAgent: the connection engine.                                  *)
(*                                                                         *)
(* Pyjo.IOLoop, its streams and the transactions are collaborators whose   *)
(* code is outside Pyjo/UserAgent: a stream is known by its state and the  *)
(* callbacks the engine has registered on it, a transaction by its         *)
(* capabilities (client_read, client_write, is_writing, is_finished, the   *)
(* error slot).                                                            *)
(***************************************************************************)
MaxConn    == 2     \* at most this many requests are started
MaxChunks  == 2     \* a request is written in at most this many chunks

CIDs == 1..MaxConn

TxStates == {"write", "read", "finished"}

\* the values request_timeout is set to
RequestTimeouts == {0, 1}

\* remove_address is the attribute the assignment of _connected creates
NewTx == [state |-> "write", error |-> "none", connection |-> 0, chunks |-> 0,
          resume |-> FALSE,
          local_address |-> "none", local_port |-> 0,
          remote_address |-> "none", remote_port |-> 0,
          remove_address |-> "none"]

\* handle.getsockname() and handle.getpeername() of the stream of cid
getsockname(cid) == <<"127.0.0.1", 5000 + cid>>

getpeername(cid) == <<"10.0.0.1", 80>>

NoStream == [state |-> "none", loop |-> "none", handlers |-> FALSE,
             timeout |-> FALSE, written |-> 0, pending |-> 0]

\* an engine that has every connection on the shared loop
_loopShared(nb) == "singleton"

_loop(nb) == IF nb THEN "singleton" ELSE "ioloop"

\* the user agent and its collaborators, as the value the methods transform
UA == [connections |-> _connections, txs |-> txs, streams |-> streams,
       rtimers |-> rtimers, ioloop |-> ioloop, hist |-> hist,
       request_timeout |-> 0,
       raised |-> "none", finish |-> "none", error |-> "none", loops |-> {},
       fed |-> <<>>, busy |-> 0]

\* the handler has called a method of the loop l
on_loop(u, l) == [u EXCEPT !.loops = @ \cup {l}]

is_writing(t) == t.state = "write"

is_finished(t) == t.state = "finished"

\* tx.client_write(): one more chunk is pulled and the transaction moves on
client_write(t, state) == [t EXCEPT !.state = state, !.chunks = @ + 1]

\* tx.client_read(chunk)
client_read(t, state) == [t EXCEPT !.state = state]

\* what a transaction can be after its next client_write(): the request has
\* at most MaxChunks chunks
WriteOutcomes(t) ==
    IF t.chunks + 1 >= MaxChunks THEN {"read", "finished"} ELSE TxStates

\* what a transaction can be after a client_read()
ReadOutcomes(t) ==
    IF t.state = "finished" THEN {"finished"}
    ELSE IF t.chunks >= MaxChunks THEN {"read", "finished"} ELSE TxStates

\* def _error(self, cid, err): ...
_error(u, cid, err) == u

\* def _finish(self, cid, close): ...
_finish(u, cid, close) == u

\* a call self._error(cid, err), remembered in the history
error_call(u, cid, err) ==
    LET v == _error(u, cid, err)
    IN  [v EXCEPT !.error = err]

\* a call self._finish(cid, close), remembered in the history
finish_call(u, cid, close) ==
    LET v == _finish(u, cid, close)
    IN  [v EXCEPT !.finish = IF close THEN "close" ELSE "keep"]

(***************************************************************************)
(* _write(cid).  os is what the transaction does in the client_write()     *)
(* calls made: os[1] for this call's, the rest for a call nested in it     *)
(* when the transaction emits 'resume' from inside client_write().         *)
(***************************************************************************)
\* a write loop that leaves the writing flag set
RECURSIVE _writeSticky(_, _, _)
_writeSticky(u, cid, os) ==
    IF cid \notin DOMAIN u.connections THEN u
    ELSE LET c  == u.connections[cid]
             tx == c.tx
         IN  IF ~is_writing(u.txs[tx]) THEN u
             ELSE IF c.writing THEN [u EXCEPT !.busy = @ + 1]
             ELSE LET o  == Head(os)
                      u1 == [u EXCEPT !.connections[cid].writing = TRUE]
                      u2 == IF o.resume /\ Len(os) > 1
                            THEN _writeSticky(u1, cid, Tail(os)) ELSE u1
                      u3 == [u2 EXCEPT !.txs[tx] = client_write(@, o.state)]
                      u5 == [on_loop(u3, _loop(c.nb)) EXCEPT
                                !.streams[cid].written = @ + 1]
                  IN  IF is_finished(u5.txs[tx])
                      THEN [u5 EXCEPT !.raised = "TypeError"]
                      ELSE IF ~is_writing(u5.txs[tx]) THEN u5
                      ELSE [u5 EXCEPT !.streams[cid].pending = @ + 1]

RECURSIVE _write(_, _, _)
_write(u, cid, os) ==
    IF cid \notin DOMAIN u.connections THEN u
    ELSE LET c  == u.connections[cid]
             tx == c.tx
         IN  IF ~is_writing(u.txs[tx]) THEN u
             ELSE IF c.writing THEN [u EXCEPT !.busy = @ + 1]
             ELSE LET o  == Head(os)
                      u1 == [u EXCEPT !.connections[cid].writing = TRUE]
                      u2 == IF o.resume /\ Len(os) > 1
                            THEN _write(u1, cid, Tail(os)) ELSE u1
                      u3 == [u2 EXCEPT !.txs[tx] = client_write(@, o.state)]
                      u4 == [u3 EXCEPT !.connections[cid].writing = FALSE]
                      u5 == [on_loop(u4, _loop(c.nb)) EXCEPT
                                !.streams[cid].written = @ + 1]
                  IN  IF is_finished(u5.txs[tx])
                      THEN \* self._finish(cid): close is missing
                           [u5 EXCEPT !.raised = "TypeError"]
                      ELSE IF ~is_writing(u5.txs[tx]) THEN u5
                      ELSE [u5 EXCEPT !.streams[cid].pending = @ + 1]

\* _read(cid, chunk): the record c is a non-empty dict and tx an object, so
\* the branches `if not c` and `if not tx` are never taken
_read(u, cid, o, os) ==
    IF cid \notin DOMAIN u.connections THEN u
    ELSE LET tx == u.connections[cid].tx
             u1 == [u EXCEPT !.txs[tx] = client_read(@, o),
                             !.fed = Append(@, o)]
         IN  IF is_finished(u1.txs[tx]) THEN finish_call(u1, cid, FALSE)
             ELSE IF is_writing(u1.txs[tx]) THEN _write(u1, cid, os)
             ELSE u1

_connected(u, cid, os) ==
    IF cid \notin DOMAIN u.connections THEN [u EXCEPT !.raised = "KeyError"]
    ELSE LET tx == u.connections[cid].tx
             u1 == [on_loop(u, _loop(u.connections[cid].nb)) EXCEPT
                       !.streams[cid].timeout = TRUE]
             u2 == [u1 EXCEPT !.txs[tx].connection = cid,
                              !.txs[tx].local_address = getsockname(cid)[1],
                              !.txs[tx].local_port = getsockname(cid)[2],
                              !.txs[tx].remove_address = getpeername(cid)[1],
                              !.txs[tx].remote_port = getpeername(cid)[2]]
             u3 == [u2 EXCEPT !.txs[tx].resume = TRUE]
         IN  _write(u3, cid, os)

\* client_cb(loop, err, stream) of _connect; the user agent is alive
client_cb(u, cid, err, os) ==
    IF err # "none" THEN error_call(u, cid, err)
    ELSE LET u1 == [u EXCEPT !.streams[cid].handlers = TRUE]
         IN  _connected(u1, cid, os)

\* loop.client(cb, **options): the loop starts to connect and returns the
\* id; the callback is left to a later pass of that loop
client(u, l, cid) ==
    [on_loop(u, l) EXCEPT !.streams[cid].state = "connecting",
                          !.streams[cid].loop = l]

\* a _connection that does not store the record
_connectionUnstored(u, nb, tx, cb, cid) == client(u, _loop(nb), cid)

\* _connection(nb, tx, cb): _connect asks the loop for a client, whose id
\* is cid, and the record is stored under it
_connection(u, nb, tx, cb, cid) ==
    LET u1 == client(u, _loop(nb), cid)
    IN  [u1 EXCEPT !.connections =
            [k \in DOMAIN @ \cup {cid} |->
                IF k = cid THEN [cb |-> cb, nb |-> nb, tx |-> tx,
                                 writing |-> FALSE]
                ELSE @[k]]]

\* _start(nb, tx, cb): the right-hand side of the assignment arms the timer
\* before its target self.connections[id] is looked up
_start(u, nb, tx, cb, cid, timeout) ==
    LET u1 == _connection(u, nb, tx, cb, cid)
    IN  IF timeout # 0
        THEN [on_loop(u1, _loop(nb)) EXCEPT
                 !.rtimers = @ \cup {cid}, !.raised = "AttributeError"]
        ELSE u1

(***************************************************************************)
(* The events.  A loop dispatches one callback at a time.  The singleton   *)
(* loop is run by the application, self.ioloop only by a blocking start(), *)
(* which does nothing else until ioloop.start() returns or raises.         *)
(***************************************************************************)
Driven(l) == IF l = "ioloop" THEN blocked # 0 ELSE blocked = 0

Used == {c \in CIDs : streams[c].state # "none"}

\* a loop with no stream and no timer left has nothing to watch
LoopEmpty(l) ==
    /\ \A c \in CIDs : streams[c].loop = l =>
                          streams[c].state \notin {"connecting", "open"}
    /\ \A c \in rtimers : streams[c].loop # l

TxOf(cid) == IF cid \in DOMAIN _connections THEN txs[_connections[cid].tx]
             ELSE NewTx

WriteSeqs(t) ==
    {<<o1, o2>> : o1 \in [state : WriteOutcomes(t), resume : BOOLEAN],
                  o2 \in [state : {"read"}, resume : {FALSE}]}

\* the step's effect u becomes the state; an exception raised while a
\* blocking start() runs the loop leaves ioloop.start() and start()
Deliver(u, name, cid) ==
    /\ _connections' = u.connections
    /\ txs' = u.txs
    /\ streams' = u.streams
    /\ rtimers' = u.rtimers
    /\ ioloop' = u.ioloop
    /\ hist' = u.hist
    /\ blocked' = IF u.raised # "none" THEN 0 ELSE blocked
    /\ alive' = alive
    /\ last' = [name |-> name, cid |-> cid, raised |-> u.raised,
                 finish |-> u.finish, error |-> u.error,
                 timeout |-> u.request_timeout, loops |-> u.loops,
                 fed |-> u.fed, busy |-> u.busy]
    /\ UNCHANGED <<rvars, fvars>>

\* start(tx, cb): non-blocking
StartNonBlocking ==
    /\ alive
    /\ blocked = 0
    /\ Cardinality(Used) < MaxConn
    /\ \E timeout \in RequestTimeouts :
          LET cid == Cardinality(Used) + 1
              u   == _start([UA EXCEPT !.request_timeout = timeout],
                            TRUE, cid, "cb", cid, timeout)
          IN  Deliver(u, "start", cid)

\* start(tx): blocking; ioloop.start() is reached when _start() returns
StartBlocking ==
    /\ alive
    /\ blocked = 0
    /\ Cardinality(Used) < MaxConn
    /\ \E timeout \in RequestTimeouts :
          LET cid == Cardinality(Used) + 1
              u   == _start([UA EXCEPT !.request_timeout = timeout],
                            FALSE, cid, "blocking_cb", cid, timeout)
          IN  /\ _connections' = u.connections
              /\ txs' = u.txs
              /\ streams' = u.streams
              /\ rtimers' = u.rtimers
              /\ hist' = u.hist
              /\ ioloop' = IF u.raised = "none" THEN TRUE ELSE u.ioloop
              /\ blocked' = IF u.raised = "none" THEN cid ELSE 0
              /\ alive' = alive
              /\ last' = [name |-> "start", cid |-> cid, raised |-> u.raised,
                           finish |-> u.finish, error |-> u.error,
                           timeout |-> timeout, loops |-> u.loops,
                           fed |-> u.fed, busy |-> u.busy]
              /\ UNCHANGED <<rvars, fvars>>

\* ioloop.start() returns: the loop was stopped or has nothing to watch
BlockingReturn ==
    /\ blocked # 0
    /\ ~ioloop \/ LoopEmpty("ioloop")
    /\ ioloop' = FALSE
    /\ blocked' = 0
    /\ last' = [name |-> "return", cid |-> blocked, raised |-> "none",
                 finish |-> "none", error |-> "none", timeout |-> 0,
                 loops |-> {}, fed |-> <<>>, busy |-> 0]
    /\ UNCHANGED <<_connections, txs, streams, rtimers, hist, alive>>
    /\ UNCHANGED <<rvars, fvars>>

ConnectOk(cid) ==
    /\ streams[cid].state = "connecting" /\ Driven(streams[cid].loop)
    /\ \E os \in WriteSeqs(TxOf(cid)) :
          LET u0 == [UA EXCEPT !.streams[cid].state = "open"]
          IN  Deliver(client_cb(u0, cid, "none", os), "connect", cid)

ConnectFail(cid) ==
    /\ streams[cid].state = "connecting" /\ Driven(streams[cid].loop)
    /\ LET u0 == [UA EXCEPT !.streams[cid].state = "closed"]
       IN  Deliver(client_cb(u0, cid, "Connect error", <<>>), "connect_error", cid)

\* the stream's handlers, as client_cb registers them
StreamRead(cid) ==
    /\ streams[cid].state = "open" /\ streams[cid].handlers
    /\ Driven(streams[cid].loop)
    /\ \E o \in ReadOutcomes(TxOf(cid)) :
          \E os \in WriteSeqs(client_read(TxOf(cid), o)) :
              Deliver(_read(UA, cid, o, os), "read", cid)

StreamClose(cid) ==
    /\ streams[cid].state = "open" /\ streams[cid].handlers
    /\ Driven(streams[cid].loop)
    /\ LET u0 == [UA EXCEPT !.streams[cid].state = "closed",
                            !.streams[cid].pending = 0]
       IN  Deliver(finish_call(u0, cid, TRUE), "close", cid)

StreamError(cid) ==
    /\ streams[cid].state = "open" /\ streams[cid].handlers
    /\ Driven(streams[cid].loop)
    /\ Deliver(error_call(UA, cid, "Stream error"), "error", cid)

StreamTimeout(cid) ==
    /\ streams[cid].state = "open" /\ streams[cid].handlers
    /\ streams[cid].timeout
    /\ Driven(streams[cid].loop)
    /\ Deliver(error_call(UA, cid, "Inactivity timeout"), "timeout", cid)

\* the callback of stream.write(b'', cb=...)
WriteDone(cid) ==
    /\ streams[cid].state = "open" /\ streams[cid].pending > 0
    /\ Driven(streams[cid].loop)
    /\ \E os \in WriteSeqs(TxOf(cid)) :
          LET u0 == [UA EXCEPT !.streams[cid].pending = @ - 1]
          IN  Deliver(_write(u0, cid, os), "write_done", cid)

\* the transaction emits 'resume': the subscriber of _connected calls
\* self._write(cid), self being a weakref.proxy of the user agent
Resume(cid) ==
    /\ cid \in DOMAIN _connections /\ txs[_connections[cid].tx].resume
    /\ IF alive
       THEN /\ Driven(streams[cid].loop)
            /\ \E os \in WriteSeqs(TxOf(cid)) :
                  Deliver(_write(UA, cid, os), "resume", cid)
       ELSE Deliver([UA EXCEPT !.raised = "ReferenceError"], "resume", cid)

\* the request timer's callback
RequestTimer(cid) ==
    /\ cid \in rtimers /\ Driven(streams[cid].loop)
    /\ LET u0 == [UA EXCEPT !.rtimers = @ \ {cid}]
       IN  Deliver(error_call(u0, cid, "Request timeout"), "request_timeout", cid)

\* what keeps the user agent from being collected: the frame of a blocking
\* start(), client_cb and the stream handlers it registers (their closure
\* holds self and the bound method self._connected), and the request
\* timer's callback (it holds self)
Referenced ==
    \/ blocked # 0
    \/ \E c \in CIDs : streams[c].state \in {"connecting", "open"}
    \/ rtimers # {}

\* the application drops its last reference to the user agent
Collect ==
    /\ alive /\ ~Referenced
    /\ alive' = FALSE
    /\ last' = [name |-> "collect", cid |-> 0, raised |-> "none",
                 finish |-> "none", error |-> "none", timeout |-> 0,
                 loops |-> {}, fed |-> <<>>, busy |-> 0]
    /\ UNCHANGED <<_connections, txs, streams, rtimers, ioloop, blocked, hist>>
    /\ UNCHANGED <<rvars, fvars>>

InitUA ==
    /\ alive = TRUE
    /\ _connections = <<>>
    /\ txs = [t \in CIDs |-> NewTx]
    /\ streams = [c \in CIDs |-> NoStream]
    /\ rtimers = {}
    /\ ioloop = FALSE
    /\ blocked = 0
    /\ hist = [invoked |-> [c \in CIDs |-> 0], removed |-> [c \in CIDs |-> 0]]
    /\ last = [name |-> "init", cid |-> 0, raised |-> "none",
               finish |-> "none", error |-> "none", timeout |-> 0,
               loops |-> {}, fed |-> <<>>, busy |-> 0]

NextUA ==
    \/ StartNonBlocking \/ StartBlocking \/ BlockingReturn \/ Collect
    \/ \E cid \in CIDs :
          \/ ConnectOk(cid) \/ ConnectFail(cid)
          \/ StreamRead(cid) \/ StreamClose(cid) \/ StreamError(cid)
          \/ StreamTimeout(cid) \/ WriteDone(cid) \/ Resume(cid)
          \/ RequestTimer(cid)

(***************************************************************************)
(* Pyjo/Util.py: url_escape and url_unescape.  A byte string is a sequence *)
(* of byte values.                                                         *)
(***************************************************************************)
MaxLen == 3         \* the byte strings tried have at most this many bytes

\* the bytes tried: '\n', '%', ';', 'A', 'B'
Bytes == {10, 37, 59, 65, 66}

ByteStrings == UNION {[1..n -> Bytes] : n \in 0..MaxLen}

Percent == 37       \* ord('%')

\* the digit format(n, 'X') writes for d < 16: '0'..'9', 'A'..'F'
HexDigit(d) == IF d < 10 THEN 48 + d ELSE 55 + d

\* format(n, 'X'): upper-case hexadecimal, as many digits as n needs
RECURSIVE FormatX(_)
FormatX(n) ==
    IF n < 16 THEN <<HexDigit(n)>>
    ELSE Append(FormatX(n \div 16), HexDigit(n % 16))

\* A-Za-z0-9\-._~
AllowChars == (65..90) \cup (97..122) \cup (48..57) \cup {45, 46, 95, 126}

\* 0-9a-fA-F
HexChars == (48..57) \cup (65..70) \cup (97..102)

\* int(c, 16) of one digit
HexValue(c) == IF c <= 57 THEN c - 48 ELSE IF c <= 70 THEN c - 55 ELSE c - 87

\* Pyjo_Regexp.sub(repl, string) of a regexp made without the flag 'g':
\* re.sub with count = 1.  at: the positions where the pattern matches;
\* the leftmost one is replaced, 0 if there is none
Leftmost(at) == IF at = {} THEN 0 ELSE MinOf(at)

\* re_url_allow_chars matches one byte that is not an allowed one
UnsafeAt(bstring) == {i \in 1..Len(bstring) : bstring[i] \notin AllowChars}

\* re_percent_chars matches '%' and two hexadecimal digits
PercentAt(bstring) ==
    {i \in 1..Len(bstring) :
        /\ bstring[i] = Percent
        /\ i + 2 <= Len(bstring)
        /\ bstring[i + 1] \in HexChars /\ bstring[i + 2] \in HexChars}

url_escape(bstring) ==
    LET i == Leftmost(UnsafeAt(bstring))
    IN  IF i = 0 THEN bstring
        ELSE SubSeq(bstring, 1, i - 1) \o <<Percent>> \o FormatX(bstring[i])
             \o SubSeq(bstring, i + 1, Len(bstring))

url_unescape(bstring) ==
    LET i == Leftmost(PercentAt(bstring))
    IN  IF i = 0 THEN bstring
        ELSE SubSeq(bstring, 1, i - 1)
             \o <<16 * HexValue(bstring[i + 1]) + HexValue(bstring[i + 2])>>
             \o SubSeq(bstring, i + 3, Len(bstring))

\* nothing has been returned yet
NoValue == [t |-> "none"]

Bytestring(v) == [t |-> "bytes", v |-> v]

\* escaped = url_escape(bstring)
UrlEscape ==
    /\ fn_in.fn = "url_escape" /\ fn_pc = "called"
    /\ fn_mid' = Bytestring(url_escape(fn_in.bstring))
    /\ fn_pc' = "escaped"
    /\ UNCHANGED <<fn_in, fn_out, rvars, uvars>>

\* url_unescape(escaped)
UrlUnescape ==
    /\ fn_in.fn = "url_escape" /\ fn_pc = "escaped"
    /\ fn_out' = Bytestring(url_unescape(fn_mid.v))
    /\ fn_pc' = "unescaped"
    /\ UNCHANGED <<fn_in, fn_mid, rvars, uvars>>

UtilCalls == {[fn |-> "url_escape", bstring |-> b] : b \in ByteStrings}

(***************************************************************************)
(* Pyjo/Parameters.py.  A text string is a sequence of character codes; a  *)
(* Python value is a record [t, v] of its type and its content.            *)
(***************************************************************************)
MaxPairs == 2       \* a Parameters object is built from at most this many pairs

Names == {<<97>>, <<98>>}          \* 'a', 'b'
Values == {<<49>>, <<59>>}         \* '1', ';'

Pairs == [name : Names, value : Values]

PairLists == UNION {[1..n -> Pairs] : n \in 0..MaxPairs}

None == [t |-> "None"]
Text(v) == [t |-> "str", v |-> v]
List(v) == [t |-> "list", v |-> v]
Tuple(p) == [t |-> "tuple", v |-> <<Text(p.name), Text(p.value)>>]

\* bool(x) of None, a string or a list
Truthy(x) == x.t # "None" /\ Len(x.v) > 0

\* str(x) of a string, and of a tuple of two strings: "('a', '1')"
Str(x) ==
    IF x.t = "str" THEN x.v
    ELSE <<40, 39>> \o x.v[1].v \o <<39, 44, 32, 39>> \o x.v[2].v \o <<39, 41>>

\* a < b for two strings
StrLess(a, b) ==
    \E i \in 1..(Len(b)) :
        /\ \A j \in 1..(i - 1) : j <= Len(a) /\ a[j] = b[j]
        /\ i > Len(a) \/ a[i] < b[i]

\* sorted(d.items()): the keys of a dict differ
Sorted(items) ==
    CHOOSE sq \in [1..Len(items) -> Range(items)] :
        /\ Range(sq) = Range(items)
        /\ \A i \in 1..(Len(items) - 1) : StrLess(sq[i].name, sq[i + 1].name)

\* [a for sublist in ... for a in sublist]
Flatten(items) ==
    [k \in 1..(2 * Len(items)) |->
        IF k % 2 = 1 THEN Text(items[(k + 1) \div 2].name)
        ELSE Text(items[k \div 2].value)]

\* '&'.join(parts)
RECURSIVE Join(_)
Join(parts) ==
    IF parts = <<>> THEN <<>>
    ELSE IF Len(parts) = 1 THEN parts[1]
    ELSE parts[1] \o <<38>> \o Join(Tail(parts))

\* Pyjo_Parameters.__init__(*args, **kwargs); form tells how the pairs or
\* the string are handed over:
\*   "args"    new(('a', '1'), ('b', '1'))    "list"   new([('a', '1'), ...])
\*   "dict"    new({'a': '1', ...})            "kwargs" new(a='1', ...)
\*   "string"  new('a=1&b=1')
__init__(form, items, string) ==
    CASE form = "args" ->
            IF Len(items) = 1
            THEN [_string |-> List(Tuple(items[1]).v), _params |-> None]
            ELSE IF Len(items) > 1
            THEN [_string |-> None,
                  _params |-> List([k \in 1..Len(items) |-> Tuple(items[k])])]
            ELSE [_string |-> Text(<<>>), _params |-> None]
      [] form = "list" ->
            [_string |-> List([k \in 1..Len(items) |-> Tuple(items[k])]),
             _params |-> None]
      [] form = "dict" ->
            [_string |-> None, _params |-> List(Flatten(Sorted(items)))]
      [] form = "kwargs" ->
            IF Len(items) > 0
            THEN [_string |-> None, _params |-> List(Flatten(Sorted(items)))]
            ELSE [_string |-> Text(<<>>), _params |-> None]
      [] form = "string" ->
            [_string |-> Text(string), _params |-> None]

\* to_string(); a str is a byte string, as in Python 2
to_string(self) ==
    IF Truthy(self._string) THEN self._string
    ELSE IF Truthy(self._params)
    THEN LET ps == self._params.v
             n  == Len(ps) \div 2
         IN  Text(Join([k \in 1..n |->
                 url_escape(Str(ps[2 * k - 1])) \o <<61>>
                 \o url_escape(Str(ps[2 * k]))]))
    ELSE Text(<<>>)

\* name=value&name=value
QueryString(items) ==
    Join([k \in 1..Len(items) |-> items[k].name \o <<61>> \o items[k].value])

DistinctNames(items) ==
    \A i, j \in 1..Len(items) : items[i].name = items[j].name => i = j

ParametersCalls ==
    {[fn |-> "Parameters", form |-> f, items |-> l, string |-> <<>>] :
        f \in {"args", "list"}, l \in PairLists}
    \cup {[fn |-> "Parameters", form |-> f, items |-> l, string |-> <<>>] :
            f \in {"dict", "kwargs"}, l \in {x \in PairLists : DistinctNames(x)}}
    \cup {[fn |-> "Parameters", form |-> "string", items |-> <<>>,
           string |-> QueryString(l)] : l \in PairLists}

\* params = Pyjo.Parameters.new(...)
NewParameters ==
    /\ fn_in.fn = "Parameters" /\ fn_pc = "called"
    /\ fn_mid' = __init__(fn_in.form, fn_in.items, fn_in.string)
    /\ fn_pc' = "built"
    /\ UNCHANGED <<fn_in, fn_out, rvars, uvars>>

\* params.to_string()
CallToString ==
    /\ fn_in.fn = "Parameters" /\ fn_pc = "built"
    /\ fn_out' = to_string(fn_mid)
    /\ fn_pc' = "string"
    /\ UNCHANGED <<fn_in, fn_mid, rvars, uvars>>

\* no function is being applied
InitFn ==
    /\ fn_in = [fn |-> "none"]
    /\ fn_mid = NoValue
    /\ fn_out = NoValue
    /\ fn_pc = "none"

Init == InitReactor /\ InitUA /\ InitFn

\* a call of a function with arguments drawn from the sets above
InitCall ==
    /\ InitReactor /\ InitUA
    /\ fn_in \in UtilCalls \cup ParametersCalls
    /\ fn_mid = NoValue
    /\ fn_out = NoValue
    /\ fn_pc = "called"

NextFn == UrlEscape \/ UrlUnescape \/ NewParameters \/ CallToString

SpecFn == InitCall /\ [][NextFn]_vars

SpecReactor == Init /\ [][NextReactor]_vars

\* a reactor in use: every descriptor has been registered with io() and one
\* one-shot timer has been made at time 0 with the delay 0, which are
\* MaxFd + 1 registrations
InitLoaded ==
    /\ InitUA /\ InitFn
    /\ _ios = [fd \in FDs |-> [cb |-> IF fd = 1 THEN "f" ELSE "g"]]
    /\ _timers = <<[id |-> 1, time |-> 0, after |-> 0,
                     recurring |-> FALSE, cb |-> "t"]>>
    /\ _inputs = [j \in 1..MaxFd |-> j]
    /\ _outputs = [j \in 1..MaxFd |-> j]
    /\ _running = FALSE
    /\ now = 0
    /\ pc = "idle"
    /\ saved = FALSE
    /\ started = FALSE
    /\ log = <<>>
    /\ lastWait = NoWait
    /\ fault = "none"
    /\ calls = MaxFd + 1
    /\ act = "init"

\* what is done with such a reactor: it is run, and entries are removed
NextLoaded ==
    \/ Again \/ RemoveTimer \/ RemoveIo \/ Reset \/ Stop \/ Start
    \/ OneTick \/ OneTickReturn \/ OneTickRaise \/ Elapse

SpecLoaded == InitLoaded /\ [][NextLoaded]_vars

SpecUA == Init /\ [][NextUA]_vars

\* what one connection's loop delivers
Events(cid) ==
    \/ ConnectOk(cid) \/ ConnectFail(cid)
    \/ StreamRead(cid) \/ StreamClose(cid) \/ StreamError(cid)
    \/ StreamTimeout(cid) \/ WriteDone(cid) \/ Resume(cid)
    \/ RequestTimer(cid)

\* a running loop keeps dispatching what is pending, and ioloop.start()
\* returns once the loop has stopped
FairSpecUA ==
    /\ SpecUA
    /\ \A cid \in CIDs : WF_vars(Events(cid))
    /\ WF_vars(BlockingReturn)

(***************************************************************************)
(* The connection engine's claims                                          *)
(***************************************************************************)
\* the transaction's terminal states: finished, or failed with an error
Terminal(t) == is_finished(t) \/ t.error # "none"

\* C1: right after an event whose handler called _finish(cid, close) - a read
\* that finished the transaction, or the stream's close - cid is absent
\* from the connection table
C1_AbsentAfterFinish ==
    last.finish # "none" => last.cid \notin DOMAIN _connections

\* C2: the completion callback of a connection is invoked at most once and
\* its record is deleted at most once, and a connection whose stream has
\* gone (it was closed, or the connect failed) has had its record deleted
\* exactly once
C2_RemovedExactlyOnce ==
    \A cid \in CIDs :
        /\ hist.invoked[cid] <= 1
        /\ hist.removed[cid] <= 1
        /\ streams[cid].state = "closed" =>
              /\ hist.removed[cid] = 1
              /\ cid \notin DOMAIN _connections

\* C3: a _write(cid) requested by 'resume' or by a read while a write of cid
\* still waits for its completion callback pulls no chunk, hands nothing
\* to the stream and registers no further completion callback
C3_OneWriteInFlight ==
    [][\A cid \in CIDs :
          (/\ last'.name \in {"resume", "read"}
           /\ last'.cid = cid
           /\ streams[cid].pending > 0)
          => /\ txs'[cid].chunks = txs[cid].chunks
             /\ streams'[cid].written = streams[cid].written
             /\ streams'[cid].pending = streams[cid].pending]_vars

\* C4: after a connect failure, an inactivity timeout, a request timeout or
\* a stream error has been handled for cid, the transaction's error slot
\* holds that error, cid is not in the table and the completion callback
\* has been called
C4_ErrorsFinish ==
    last.error # "none" =>
        /\ txs[last.cid].error = last.error
        /\ last.cid \notin DOMAIN _connections
        /\ hist.invoked[last.cid] >= 1

\* C5: once the stream's timeout event of an established connection has
\* been handled, the connection ends with the error 'Inactivity timeout'
\* and its id leaves the table
C5_InactivityTimeout ==
    \A cid \in CIDs :
        (last.name = "timeout" /\ last.cid = cid)
        ~> (/\ txs[cid].error = "Inactivity timeout"
            /\ cid \notin DOMAIN _connections)

\* C6: no exception leaves a blocking start() - neither from _start() nor
\* from ioloop.start() - and when the call is over the transaction is in a
\* terminal state
C6_BlockingStartReturnsTx ==
    [][/\ blocked # 0 => last'.raised = "none"
       /\ (last'.name = "start" /\ last' # last
           /\ ~_connections'[last'.cid].nb) => last'.raised = "none"
       /\ (blocked # 0 /\ blocked' = 0) => Terminal(txs'[blocked])]_vars

\* C7: while start() blocks, the handler that finishes the call's own
\* connection leaves the loop stopped, and nothing else in the engine
\* stops it
C7_StopOnlyByOwnTx ==
    [][/\ (blocked # 0 /\ last'.finish # "none" /\ last'.cid = blocked)
            => ~ioloop'
       /\ (blocked # 0 /\ ioloop /\ ~ioloop')
            => \/ (last'.finish # "none" /\ last'.cid = blocked)
               \/ last'.name = "return"]_vars


\* the loop a connection belongs to
LoopFor(nb) == IF nb THEN "singleton" ELSE "ioloop"

\* C27: whatever is done for a connection - the connect request, the request
\* timer, the stream lookup of _connected, a write to the stream - is done
\* on the shared loop if the connection was started non-blocking and on the
\* engine's loop if it was started blocking, the stream lives on that loop,
\* and the record's nb flag never changes
C27_OneLoopPerConnection ==
    /\ [](/\ last.cid \in DOMAIN _connections =>
                last.loops \subseteq {LoopFor(_connections[last.cid].nb)}
          /\ \A cid \in DOMAIN _connections :
                streams[cid].loop = LoopFor(_connections[cid].nb))
    /\ [][\A cid \in DOMAIN _connections :
            /\ cid \in DOMAIN _connections'
            /\ _connections'[cid].nb = _connections[cid].nb]_vars

\* a blocking and a non-blocking connection exist, and the handler of the
\* blocking one has just written to its stream
C27_Witness ==
    /\ \E c, d \in DOMAIN _connections :
          _connections[c].nb /\ ~_connections[d].nb
    /\ last.cid \in DOMAIN _connections /\ ~_connections[last.cid].nb
    /\ last.name \in {"connect", "read", "resume", "write_done"}
    /\ last.loops = {"ioloop"}

\* a read handler makes one client_read() and then the call the code's
\* branches select: _finish(cid, False), _write(cid), or nothing
ReadDispatch ==
    last.name = "read" =>
        /\ Len(last.fed) = 1
        /\ last.cid \in DOMAIN _connections
        /\ CASE last.fed[1] = "finished" ->
                    last.finish = "keep" /\ last.loops = {}
             [] last.fed[1] = "write" ->
                    last.finish = "none" /\ last.loops # {}
             [] OTHER ->
                    /\ last.finish = "none" /\ last.loops = {}
                    /\ last.raised = "none"

\* C28: a chunk read for a connection in the table is fed to the
\* transaction exactly once; if the transaction is then finished the
\* connection is finished with close=false and has left the table, else
\* if it wants to write the write loop is entered, else nothing more
\* happens and the record stays
C28_ReadFinishesOrWrites ==
    last.name = "read" =>
        /\ Len(last.fed) = 1
        /\ CASE last.fed[1] = "finished" ->
                    /\ last.finish = "keep"
                    /\ last.cid \notin DOMAIN _connections
             [] last.fed[1] = "write" ->
                    last.finish = "none" /\ last.loops # {}
             [] OTHER ->
                    /\ last.finish = "none" /\ last.loops = {}
                    /\ last.cid \in DOMAIN _connections

\* the step handed exactly one chunk of cid's transaction to the stream
WroteOne(cid) ==
    /\ cid \in DOMAIN _connections
    /\ last'.cid = cid
    /\ streams'[cid].written = streams[cid].written + 1

\* the zero-length writes the step has added for cid
Chained(cid) ==
    streams'[cid].pending - streams[cid].pending
        + (IF last'.name = "write_done" THEN 1 ELSE 0)

\* after one chunk was written, one zero-length write is chained if the
\* transaction still wants to write and none otherwise; a transaction found
\* finished makes the write loop raise
WriteChains ==
    [][\A cid \in CIDs : WroteOne(cid) =>
          LET t == txs'[_connections[cid].tx]
          IN  /\ Chained(cid) = IF is_writing(t) THEN 1 ELSE 0
              /\ is_finished(t) <=> last'.raised = "TypeError"]_vars

\* C29: after the write loop has handed a chunk to the stream, a finished
\* transaction means the connection is finished without a fault (its id
\* leaves the table, the completion callback is invoked); a transaction
\* that still wants to write gets exactly one chained zero-length write,
\* and any other none
C29_WriteLoopContinuation ==
    [][\A cid \in CIDs : WroteOne(cid) =>
          LET t == txs'[_connections[cid].tx]
          IN  /\ Chained(cid) = IF is_writing(t) THEN 1 ELSE 0
              /\ is_finished(t) =>
                    /\ last'.raised = "none"
                    /\ cid \notin DOMAIN _connections'
                    /\ hist'.invoked[cid] = hist.invoked[cid] + 1]_vars

\* the connections whose connect has completed successfully
Connected == {cid \in DOMAIN _connections : streams[cid].timeout}

\* what _connected stores in the transaction
ConnectedStores ==
    \A cid \in Connected :
        LET t == txs[_connections[cid].tx]
        IN  /\ t.connection = cid
            /\ <<t.local_address, t.local_port>> = getsockname(cid)
            /\ <<t.remove_address, t.remote_port>> = getpeername(cid)
            /\ t.remote_address = "none"

\* C30: once the connect of a connection has completed successfully, its
\* transaction holds the connection id, the stream's local address and
\* port and the stream's remote address and port
C30_ConnectionInfoStored ==
    \A cid \in Connected :
        LET t == txs[_connections[cid].tx]
        IN  /\ t.connection = cid
            /\ <<t.local_address, t.local_port>> = getsockname(cid)
            /\ <<t.remote_address, t.remote_port>> = getpeername(cid)

\* the handler before this step has finished the connection cid or has
\* reported an error for it
JustEnded(cid) ==
    last.cid = cid /\ (last.finish # "none" \/ last.error # "none")

\* C31: once a connection has been finished or has ended in an error, an
\* event delivered for it afterwards makes no client_read and no
\* client_write and hands nothing to its stream
C31_FinishedIsTerminal ==
    [][\A cid \in CIDs :
          (JustEnded(cid) /\ last'.cid = cid /\
           last'.name \in {"read", "resume", "write_done", "close",
                           "error", "timeout"}) =>
              /\ last'.fed = <<>>
              /\ txs'[cid].chunks = txs[cid].chunks
              /\ streams'[cid].written = streams[cid].written]_vars

\* a callback that fires when the user agent is gone changes neither the
\* connection table nor a transaction
DeadEngineUntouched ==
    [][~alive => _connections' = _connections /\ txs' = txs]_vars

\* the user agent is not collected while a loop holds a connect callback, a
\* stream handler or a request timer of it
HeldByCallbacks == ~alive => ~Referenced

\* C32: a callback of the engine that fires when the user agent no longer
\* exists does nothing: it raises no fault and changes neither the
\* connection table nor a transaction
C32_DeadEngineNoOp ==
    [][~alive => /\ last'.raised = "none"
                 /\ _connections' = _connections /\ txs' = txs]_vars

\* C37: between two callbacks the writing flag of every connection in the
\* table is false, also after a handler in which a 'resume' notification
\* re-entered _write from inside client_write()
C37_WritingFlagClear ==
    \A cid \in DOMAIN _connections : ~_connections[cid].writing

\* a handler has written a chunk, and a 'resume' emitted from inside its
\* client_write() has re-entered _write, which found the flag set
C37_Witness ==
    /\ last.cid \in DOMAIN _connections
    /\ last.busy > 0 /\ last.loops # {}
    /\ streams[last.cid].written > 0
    /\ ~_connections[last.cid].writing

\* C40: from the return of the start on, the record of a connection is in
\* the table under the id the loop gave, so the connect callback, success
\* or failure, finds the record: it does not end in a KeyError and it acts
\* on the id of its own connection
C40_RecordBeforeConnect ==
    /\ \A cid \in CIDs : streams[cid].state # "none" =>
          cid \in DOMAIN _connections /\ _connections[cid].tx = cid
    /\ last.name \in {"connect", "connect_error"} =>
          /\ last.raised # "KeyError"
          /\ last.cid \in DOMAIN _connections
          /\ last.name = "connect" => txs[last.cid].connection = last.cid

\* a connect has completed successfully for one connection and has failed
\* for the other
C40_Witness ==
    /\ last.name = "connect_error" /\ last.error = "Connect error"
    /\ \E cid \in DOMAIN _connections :
          cid # last.cid /\ txs[cid].connection = cid

(***************************************************************************)
(* Properties of the reactor                                               *)
(***************************************************************************)
Dispatched(fd) ==
    \E p \in 1..Len(log) : log[p].ev \in {"Read", "Write"} /\ log[p].id = fd

\* C8: a reactor with no timers and no watchers stops on the next
\* one_tick(): the call returns at once, without waiting and without invoking
\* a callback, and leaves _running false; start() on such a reactor returns.
C8_EmptyReactorStops ==
    [][(act' = "tick" /\ _timers = <<>> /\ DOMAIN _ios = {})
         => /\ pc' = "idle"
            /\ ~_running'
            /\ ~started'
            /\ now' = now
            /\ log' = <<>>
            /\ UNCHANGED <<_timers, _ios, _inputs, _outputs>>]_vars

\* one_tick() has just returned from a reactor that once had entries and had
\* none left
C8_Witness ==
    /\ act = "tick" /\ pc = "idle"
    /\ _timers = <<>> /\ DOMAIN _ios = {}
    /\ ~_running /\ ~started
    /\ calls > 0

\* C9: of two timers fired by the same one_tick(), the one with the earlier
\* deadline is fired first, whatever the order of their creation.
C9_DeadlineOrder ==
    \A p, q \in 1..Len(log) :
        (p < q /\ log[p].ev = "Timer" /\ log[q].ev = "Timer")
            => log[p].at <= log[q].at

\* C10 as stated: every descriptor select() reported has had its callback
\* invoked when control leaves one_tick(), by return or by exception.
C10_EveryReadyDispatched ==
    pc \in {"restore", "raise"} => \A fd \in Ready(lastWait) : Dispatched(fd)

\* C10 as amended: every descriptor select() reported has had its callback
\* invoked by the time one_tick() returns; the call that does not get that
\* far is left by an exception.
C10_ReadyDispatchedAtReturn ==
    pc = "restore" => \A fd \in Ready(lastWait) : Dispatched(fd)

C10_Witness ==
    /\ pc = "restore"
    /\ Cardinality(Ready(lastWait)) >= 2
    /\ \A fd \in Ready(lastWait) : Dispatched(fd)

\* the log entries of descriptor callbacks, and those of timer callbacks
IoEntries == {p \in 1..Len(log) : log[p].ev \in {"Read", "Write"}}

TimerEntries == {p \in 1..Len(log) : log[p].ev = "Timer"}

\* C11: in one pass no timer callback is invoked before a descriptor
\* callback, and when a timer callback has been invoked every descriptor
\* the wait reported has had its callback invoked before it
C11_IoBeforeTimers ==
    /\ \A p \in TimerEntries : \A q \in IoEntries : q < p
    /\ TimerEntries # {} => \A fd \in Ready(lastWait) : Dispatched(fd)

\* a pass has invoked a descriptor's callback and then a timer's
C11_Witness ==
    /\ pc = "restore"
    /\ IoEntries # {} /\ TimerEntries # {}

\* how often the callback of fd has been invoked in this one_tick()
IoCount(fd) == Cardinality({p \in IoEntries : log[p].id = fd})

\* the path the claim gives a reported descriptor
ClaimedPath(fd) ==
    IF fd \in lastWait.rd \cup lastWait.ex THEN "Read" ELSE "Write"

\* C12 as stated: every descriptor the wait reported has its callback
\* invoked exactly once for that wait, on the read path when it is readable
\* or exceptional and on the write path otherwise
C12_ExactlyOnce ==
    pc \in {"restore", "raise"} =>
        \A fd \in Ready(lastWait) :
            /\ IoCount(fd) = 1
            /\ \A p \in IoEntries : log[p].id = fd => log[p].ev = ClaimedPath(fd)

\* C12 as amended: only reported descriptors are dispatched, each at most
\* once and on the path the claim gives; when one_tick() returns each has
\* been dispatched exactly once
C12_OncePerWait ==
    /\ \A p \in IoEntries :
          /\ log[p].id \in Ready(lastWait)
          /\ log[p].ev = ClaimedPath(log[p].id)
    /\ \A fd \in FDs : IoCount(fd) <= 1
    /\ pc = "restore" => \A fd \in Ready(lastWait) : IoCount(fd) = 1

\* one_tick() is about to return after a wait that reported a descriptor
\* readable and writable at once, and another writable only
C12_Witness ==
    /\ pc = "restore"
    /\ \E fd \in lastWait.rd \cap lastWait.wr : IoCount(fd) = 1
    /\ \E fd \in lastWait.wr \ (lastWait.rd \cup lastWait.ex) : IoCount(fd) = 1

\* C13: a one_tick() that returns normally has dispatched at least one
\* event, or it found both tables empty and stopped the loop
C13_ReturnsAfterDispatch ==
    [][(pc' = "idle" /\ (pc = "restore" \/ act' = "tick"))
         => \/ Len(log) >= 1
            \/ (_timers = <<>> /\ DOMAIN _ios = {} /\ ~_running')]_vars

\* one_tick() has just returned normally from a reactor that has something
\* to watch
C13_Witness ==
    /\ act = "return" /\ pc = "idle"
    /\ (_timers # <<>> \/ DOMAIN _ios # {})

\* C14: in every state, remove(x) of a live timer id or of a descriptor
\* with a watcher deletes the entry (the descriptor from both interest sets
\* too) and returns true; of any other id or descriptor it returns false
\* and changes nothing; a second remove(x) returns false and changes nothing
C14_RemoveIdempotent ==
    /\ \A fd \in FDs :
          LET r1 == remove_io(Self, fd)
          IN  /\ remove_io_result(Self, fd) =>
                    /\ fd \notin DOMAIN r1.ios
                    /\ fd \notin Range(r1.inputs) \cup Range(r1.outputs)
              /\ ~remove_io_result(Self, fd) => r1 = Self
              /\ r1.timers = _timers
              /\ ~remove_io_result(r1, fd) /\ remove_io(r1, fd) = r1
    /\ \A tid \in TIDs :
          LET r1 == remove_timer(Self, tid)
          IN  /\ remove_timer_result(Self, tid) => tid \notin TimerIds(r1.timers)
              /\ ~remove_timer_result(Self, tid) => r1 = Self
              /\ r1.ios = _ios /\ r1.inputs = _inputs /\ r1.outputs = _outputs
              /\ ~remove_timer_result(r1, tid) /\ remove_timer(r1, tid) = r1

\* no element occurs twice in the list
NoDuplicates(l) == \A p, q \in 1..Len(l) : l[p] = l[q] => p = q

\* C15: no descriptor occurs twice in the read-interest or in the
\* write-interest list, and io() on a registered descriptor replaces its
\* callback: the watcher table keeps its descriptors and its other
\* entries, and the lists stay free of duplicates
C15_OneWatcherPerDescriptor ==
    /\ NoDuplicates(_inputs) /\ NoDuplicates(_outputs)
    /\ \A fd \in DOMAIN _ios : \A cb \in Callbacks :
          LET r1 == io(Self, cb, fd)
          IN  /\ DOMAIN r1.ios = DOMAIN _ios
              /\ r1.ios[fd].cb = cb
              /\ \A f \in DOMAIN _ios \ {fd} : r1.ios[f] = _ios[f]
              /\ NoDuplicates(r1.inputs) /\ NoDuplicates(r1.outputs)
              /\ Range(r1.inputs) = Range(_inputs) \cup {fd}
              /\ Range(r1.outputs) = Range(_outputs) \cup {fd}

\* two registrations were made and one descriptor is registered, once in
\* each list
C15_Witness ==
    /\ calls = 2 /\ _timers = <<>>
    /\ \E fd \in FDs : /\ DOMAIN _ios = {fd}
                        /\ _inputs = <<fd>> /\ _outputs = <<fd>>
                        /\ _ios[fd].cb = "g"

\* C16: a timer() or recurring() call adds exactly one timer, at an id no
\* live timer has, and leaves every timer that existed as it was
C16_FreshTimerId ==
    [][(act' = "call" /\ calls' = calls + 1 /\ _timers' # _timers)
         => /\ Len(_timers') = Len(_timers) + 1
            /\ SubSeq(_timers', 1, Len(_timers)) = _timers
            /\ _timers'[Len(_timers')].id \notin TimerIds(_timers)
            /\ \A p, q \in 1..Len(_timers') :
                  _timers'[p].id = _timers'[q].id => p = q]_vars

\* timer() or recurring() has been called while another timer was live
C16_Witness ==
    /\ act = "call" /\ calls = 2
    /\ Len(_timers) = 2

\* the recurring timers whose deadline has been reached and that have not
\* been fired in this one_tick()
RecurringMissed ==
    {j \in 1..Len(_timers) :
        /\ _timers[j].recurring /\ _timers[j].time <= now
        /\ \A p \in TimerEntries : log[p].id # _timers[j].id}

\* a recurring timer that has fired in this pass, at the instant now, is in
\* the table under its id, still recurring, with the deadline now + interval
\* (unless its own callback or a later callback of the pass has removed it,
\* by remove(id) or reset())
RecurringRescheduled ==
    \A p \in TimerEntries :
        (/\ log[p].rec /\ log[p].found # "true"
         /\ \A q \in p..Len(log) : \A x \in log[q].tids : x.id # log[p].id) =>
            /\ log[p].id \in TimerIds(_timers)
            /\ LET t == TimerOf(_timers, log[p].id)
               IN  t.recurring /\ t.time = now + t.after

\* C17 as stated: a fired recurring timer is rescheduled to now + interval
\* and stays in the table, and in every pass every recurring timer whose
\* deadline has been reached fires
C17_RecurringFiresEveryPass ==
    pc \in {"restore", "raise"} => RecurringRescheduled /\ RecurringMissed = {}

\* C17 as amended: the same, for the passes that no exception leaves
C17_RecurringReschedule ==
    /\ pc \in {"restore", "raise"} => RecurringRescheduled
    /\ pc = "restore" => RecurringMissed = {}

\* a recurring timer has fired after its deadline had passed
C17_Witness ==
    /\ pc = "restore"
    /\ \E p \in TimerEntries : log[p].rec /\ log[p].at < now

\* the invocations of this one_tick() whose callback raised
RaisedEntries == {p \in 1..Len(log) : log[p].raised}

\* C18: a failure raised by a descriptor or timer callback is not caught: the
\* raising invocation is the last one of its one_tick(), which is left by the
\* exception; only the reactor's readable, writable and timer dispatches
\* happen (no error event takes the failure's place); and the exception also
\* ends start(), whose loop does not go on
C18_CallbackFailurePropagates ==
    /\ [](/\ \A p \in RaisedEntries :
                p = Len(log) /\ pc = "raise" /\ fault = "callback"
          /\ \A p \in 1..Len(log) : log[p].ev \in {"Read", "Write", "Timer"})
    /\ [][(pc = "raise" /\ fault = "callback")
            => (pc' = "idle" /\ act' = "raise" /\ ~started')]_vars

\* a callback has raised inside start() while another descriptor was ready
C18_Witness ==
    /\ pc = "raise" /\ fault = "callback" /\ started
    /\ RaisedEntries # {}
    /\ \E fd \in Ready(lastWait) : ~Dispatched(fd)

\* reads, writes and the other events of a connection arm no request timer
RequestTimerNotRearmed ==
    [][last'.name # "start" => rtimers' \subseteq rtimers]_vars

\* the request timer's firing calls the error path with 'Request timeout',
\* and the timer, a one-shot one, is gone
RequestTimerFiring ==
    last.name = "request_timeout" =>
        last.error = "Request timeout" /\ last.cid \notin rtimers

\* C19: a start with request timeout 0 arms no request timer; a start with a
\* nonzero request timeout returns normally and has armed the one request
\* timer of its connection; the timer's firing calls the error path with
\* 'Request timeout'
C19_RequestTimer ==
    /\ last.name = "start" =>
           /\ last.raised = "none"
           /\ last.cid \in DOMAIN _connections
           /\ last.cid \in rtimers <=> last.timeout # 0
    /\ RequestTimerFiring

\* a start takes an id that no connection has, and the event handled for one
\* id leaves every other connection's record and transaction as they were
NoCrossTalk ==
    [][/\ DOMAIN _connections' # DOMAIN _connections
            => last'.cid \notin DOMAIN _connections
       /\ \A d \in DOMAIN _connections :
            d # last'.cid =>
                /\ d \in DOMAIN _connections'
                /\ _connections'[d] = _connections[d]
                /\ txs'[_connections[d].tx] = txs[_connections[d].tx]]_vars

\* C20: two connections of one engine have distinct ids, the events of one
\* leave the other's record (transaction, completion callback, writing flag,
\* blocking flag) unchanged, and every connection runs to completion - its
\* completion callback is invoked - however the events interleave
C20_IndependentCompletion ==
    /\ NoCrossTalk
    /\ \A cid \in CIDs :
          (cid \in DOMAIN _connections) ~> (hist.invoked[cid] >= 1)

\* C24: after watch(fd, read, write) on a registered descriptor, fd is in the
\* read-interest list exactly when read is true and in the write-interest
\* list exactly when write is true, whatever the lists held before
C24_WatchSetsInterest ==
    \A fd \in DOMAIN _ios : \A read, write \in BOOLEAN :
        LET r1 == watch(Self, fd, read, write)
        IN  /\ (fd \in Range(r1.inputs)) = read
            /\ (fd \in Range(r1.outputs)) = write

\* watch() puts a descriptor into the lists it names and leaves the other
\* list, the other descriptors and the watchers alone
WatchOnlyAdds ==
    \A fd \in FDs : \A read, write \in BOOLEAN :
        LET r1 == watch(Self, fd, read, write)
        IN  /\ read => fd \in Range(r1.inputs)
            /\ write => fd \in Range(r1.outputs)
            /\ ~read => r1.inputs = _inputs
            /\ ~write => r1.outputs = _outputs
            /\ r1.ios = _ios /\ r1.timers = _timers

\* C25: again(id) on a live timer sets that timer's deadline to now + after
\* and changes nothing else: not its after, recurring flag, callback, id or
\* place, not another timer, not the watchers, the interest lists or the
\* running flag
C25_AgainOnlyDeadline ==
    [][act' = "again" =>
          /\ \E j \in 1..Len(_timers) :
                _timers' = [_timers EXCEPT ![j].time = now + _timers[j].after]
          /\ UNCHANGED <<_ios, _inputs, _outputs, _running, now>>]_vars

\* again() has been called, later than at time 0, with two timers live, a
\* one-shot one and a recurring one
C25_Witness ==
    /\ act = "again" /\ now > 0
    /\ \E j, k \in 1..Len(_timers) :
          /\ _timers[j].recurring /\ ~_timers[k].recurring
          /\ _timers[j].time = now + _timers[j].after
          /\ _timers[k].time < now

\* a callback of this one_tick() has called stop()
StopCalled == \E p \in 1..Len(log) : log[p].stopped

\* C26: when one_tick() returns after its loop, the running flag has the
\* value it had at entry if no callback has called stop(), and then a
\* start() loop around it goes on; it is false if a callback has called
\* stop(), and so it is when one_tick() has stopped the reactor itself, having
\* nothing to watch; with the flag false the start() loop is over
C26_RunningRestored ==
    [][/\ (pc = "restore" /\ pc' = "idle") =>
             IF StopCalled THEN ~_running' /\ ~started'
             ELSE _running' = saved /\ started' = (started /\ saved)
       /\ (act' = "tick" /\ pc' = "idle") => ~_running' /\ ~started']_vars

\* one_tick() has returned inside start() with the flag put back to true
C26_Witness ==
    /\ act = "return" /\ started /\ _running
    /\ _timers # <<>> \/ DOMAIN _ios # {}

\* one_tick() is about to return, inside start(), after a callback's stop()
StoppedInStart == pc = "restore" /\ StopCalled /\ started

\* the invocations of one-shot timers' callbacks in this one_tick()
OneShotEntries == {p \in TimerEntries : ~log[p].rec}

\* C23: a one-shot timer is out of the table when its callback is invoked:
\* it is not in the table after the pass unless a callback has made a timer
\* that got its id; no one-shot timer fires twice in a pass; a remove() of
\* its id made by its own callback returns False; and the timer that a
\* callback makes is in the table after the pass, one-shot, not yet fired
C23_OneShotGoneBeforeCallback ==
    /\ \A p \in OneShotEntries :
          /\ (\A q \in p..Len(log) : log[q].made # log[p].id)
                => log[p].id \notin TimerIds(_timers)
          /\ \A q \in OneShotEntries : log[q].id = log[p].id => q = p
          /\ log[p].found # "true"
    /\ \A p \in TimerEntries :
          log[p].made # 0 =>
              /\ log[p].made \in TimerIds(_timers)
              /\ ~TimerOf(_timers, log[p].made).recurring
              /\ TimerOf(_timers, log[p].made).time = now
              /\ \A q \in (p + 1)..Len(log) :
                    ~(log[q].ev = "Timer" /\ log[q].id = log[p].made)

\* a one-shot timer's callback has made a timer, which got the id of the
\* timer that has just fired
C23_Witness ==
    /\ pc = "restore"
    /\ \E p \in OneShotEntries : log[p].made = log[p].id

\* a one-shot timer's callback has called remove() with its own id
RemoveInCallback ==
    \E p \in OneShotEntries : log[p].found = "false"

\* C33: every descriptor in the read-interest or the write-interest list has
\* a watcher entry with a callback
C33_InterestHasWatcher ==
    (Range(_inputs) \cup Range(_outputs)) \subseteq DOMAIN _ios

\* the lists and the watchers agree as long as watch() is called for
\* registered descriptors only; the step is a watch() of an unregistered one
BareWatch ==
    /\ act' = "call"
    /\ _ios' = _ios
    /\ \E fd \in FDs \ DOMAIN _ios :
          fd \in (Range(_inputs') \cup Range(_outputs'))
                    \ (Range(_inputs) \cup Range(_outputs))

\* no other operation than a bare watch() brings a descriptor without a
\* watcher into the lists
OnlyWatchBreaksInterest ==
    [][(C33_InterestHasWatcher /\ ~BareWatch) => C33_InterestHasWatcher']_vars

\* the descriptors that were reported ready, were still to be dispatched
\* when the callback of the log entry p ran, and were taken out of the
\* watcher table by that callback's remove() or reset()
RemovedWhileReady(p) ==
    {fd \in (log[p].fds \cap Ready(lastWait)) \ {log[p].id} :
        \A q \in 1..p : ~(log[q].ev \in {"Read", "Write"} /\ log[q].id = fd)}

\* the callback of a descriptor removed while it was waiting for its
\* dispatch is not invoked in that pass
RemovedNotInvoked ==
    \A p \in DOMAIN log : \A fd \in RemovedWhileReady(p) :
        \A q \in DOMAIN log :
            q > p => ~(log[q].ev \in {"Read", "Write"} /\ log[q].id = fd)

\* C34: when the callback dispatched first removes (by remove() or reset())
\* another descriptor that the same wait reported ready, the removed
\* descriptor's callback is not invoked in that pass and the pass goes on
\* without a KeyError; the descriptors in the lists all have watchers, so
\* the fault is not that of a bare watch()
C34_RemoveOtherReady ==
    (C33_InterestHasWatcher /\ \E p \in DOMAIN log : RemovedWhileReady(p) # {})
        => RemovedNotInvoked /\ fault # "KeyError"

\* the timers that a callback's remove() or reset() took out of the table
\* at the log entry p
TimerRemovedAt(p) == {x.id : x \in log[p].tids}

\* C35: a timer removed by a callback (remove(id) that found it, or
\* reset()) is not fired afterwards in the same one_tick() call, also when
\* it was due in the pass in progress
C35_RemovedTimerNotFired ==
    \A p \in DOMAIN log : \A tid \in TimerRemovedAt(p) :
        \A q \in DOMAIN log :
            q > p => ~(log[q].ev = "Timer" /\ log[q].id = tid)

\* a callback has removed a timer that was due in this pass and had not
\* fired yet, and the pass has gone on to fire another timer after it
C35_Witness ==
    /\ pc = "restore"
    /\ \E p \in DOMAIN log : \E x \in log[p].tids :
          /\ x.id # log[p].id /\ x.time <= now
          /\ \A q \in 1..p : ~(log[q].ev = "Timer" /\ log[q].id = x.id)
          /\ log[p].ev = "Timer"

\* the log entries of timer callbacks that made a timer
Makers == {p \in DOMAIN log : log[p].ev = "Timer" /\ log[p].made # 0}

\* C36: a timer made by a callback during a timer pass, with delay zero, is
\* not fired in that pass - no later callback of the pass is its own - and
\* the pass ends: one_tick() is left by its return or by what a callback
\* raised, with the new timer still waiting unless a callback removed it
C36_NewTimerNotInSamePass ==
    \A p \in Makers :
        /\ pc \in {"restore", "raise"}
        /\ \A q \in DOMAIN log :
              q > p => ~(log[q].ev = "Timer" /\ log[q].id = log[p].made)
        /\ \/ \E j \in 1..Len(_timers) :
                 _timers[j].id = log[p].made /\ _timers[j].time <= now
           \/ \E q \in DOMAIN log :
                 q > p /\ log[p].made \in TimerRemovedAt(q)

\* a timer's callback has made a zero-delay timer, which is due and waits in
\* the table while one_tick() is about to return
C36_Witness ==
    /\ pc = "restore"
    /\ \E p \in Makers : \E j \in 1..Len(_timers) :
          /\ _timers[j].id = log[p].made
          /\ _timers[j].after = 0 /\ _timers[j].time <= now

TimerIdsOf(xs) == {x.id : x \in xs}

\* the step is the first pass of a one_tick() call in which every invoked
\* callback returns
EntryPass ==
    /\ pc = "idle" /\ act' = "tick"
    /\ \A p \in DOMAIN log' : ~log'[p].raised

\* the timers whose deadline has passed and that no callback of the pass
\* takes out of the table
Overdue ==
    {_timers[j].id : j \in {k \in 1..Len(_timers) : _timers[k].time <= now}}
        \ UNION {TimerIdsOf(log'[p].tids) : p \in DOMAIN log'}

\* the pass does not wait, fires every overdue timer, and leads to the
\* return of one_tick()
FiredWithoutWait ==
    /\ now' = now
    /\ pc' = "restore"
    /\ \A tid \in Overdue :
          \E p \in DOMAIN log' : log'[p].ev = "Timer" /\ log'[p].id = tid

\* unless a descriptor reported ready has lost its watcher (KeyError), an
\* overdue timer is fired by the first pass, which does not wait
OverdueFiresUnlessKeyError ==
    [][(EntryPass /\ Overdue # {} /\ fault' # "KeyError")
          => FiredWithoutWait]_vars

\* C38: callbacks returning, a one_tick() entered with a timer whose
\* deadline has passed fires that timer in its first pass, without waiting
\* for a nonzero time, and goes on to return
C38_OverdueTimerFires ==
    [][(EntryPass /\ Overdue # {}) => FiredWithoutWait]_vars

\* an exception leaving one_tick() leaves the running flag as the pass left
\* it
RaiseLeavesFlag == [][act' = "raise" => _running' = _running]_vars

\* C39: when what a callback raised has left a one_tick() that was entered
\* with the running flag false, the flag is false again
C39_FlagRestoredOnFailure ==
    [][(pc = "raise" /\ act' = "raise" /\ fault = "callback" /\ ~saved)
          => ~_running']_vars

(***************************************************************************)
(* Properties of the functions                                             *)
(***************************************************************************)
\* name=value joined by '&', every unsafe byte percent-encoded
RECURSIVE PercentEncoded(_)
PercentEncoded(b) ==
    IF b = <<>> THEN <<>>
    ELSE (IF Head(b) \in AllowChars THEN <<Head(b)>>
          ELSE <<Percent, HexDigit(Head(b) \div 16), HexDigit(Head(b) % 16)>>)
         \o PercentEncoded(Tail(b))

Serialized(items) ==
    Join([k \in 1..Len(items) |->
            PercentEncoded(items[k].name) \o <<61>>
            \o PercentEncoded(items[k].value)])

\* C21: to_string() of a Parameters object built from a sequence of pairs is
\* name=value joined by '&' in the order given; built from keyword arguments
\* (or a dict) it is the pairs in ascending name order; built from a query
\* string it is that string
C21_ParametersToString ==
    (fn_in.fn = "Parameters" /\ fn_pc = "string") =>
        CASE fn_in.form \in {"args", "list"} ->
                fn_out = Text(Serialized(fn_in.items))
          [] fn_in.form \in {"dict", "kwargs"} ->
                fn_out = Text(Serialized(Sorted(fn_in.items)))
          [] fn_in.form = "string" ->
                fn_out = Text(fn_in.string)

\* C22: url_unescape(url_escape(s)) = s, and url_escape writes every byte
\* that is not allowed as '%' and exactly two hexadecimal digits
C22_EscapeRoundTrip ==
    fn_in.fn = "url_escape" =>
        /\ fn_pc \in {"escaped", "unescaped"} =>
                fn_mid = Bytestring(PercentEncoded(fn_in.bstring))
        /\ fn_pc = "unescaped" => fn_out = Bytestring(fn_in.bstring)

====
